---------------------------- MODULE Spec2Model ----------------------------
(***************************************************************************)
(* Model of scripts/import_master_driver_sep.py: the workbook importer     *)
(* that rebuilds each sheet's grid from worksheet XML, locates header rows *)
(* by keyword, extracts six record categories, de-duplicates the OTR       *)
(* category and writes the database document.                              *)
(*                                                                         *)
(* Text is modelled by TLA+ strings; a character is a string of length 1.  *)
(***************************************************************************)
EXTENDS Integers, Sequences, FiniteSets, TLC

VARIABLES
    col, colRes, colPc,                \* col_to_num: argument, result, position
    value, isoRes, isoPc,              \* excel_serial_to_iso: argument, result, position
    hRows, hKeys, hRes, hPc,           \* find_header_row: arguments, result, position
    schema, rows, hdr, cols, out, idx, pc, last,   \* a schema extractor's run
    records, dOut, dPc,                \* dedupe_otr: argument, result, position
    workbook, sheets, locals, written, mErr, mPc,  \* main: input, loaded sheets, local results,
                                       \* the documents written to OUT_JSON, error, position
    lWb, lRes, lPc                     \* load_workbook_rows: argument, result, position

colVars  == <<col, colRes, colPc>>
isoVars  == <<value, isoRes, isoPc>>
hVars    == <<hRows, hKeys, hRes, hPc>>
pVars    == <<schema, rows, hdr, cols, out, idx, pc, last>>
dVars    == <<records, dOut, dPc>>
mVars    == <<workbook, sheets, locals, written, mErr, mPc>>
lVars    == <<lWb, lRes, lPc>>
vars     == <<colVars, isoVars, hVars, pVars, dVars, mVars, lVars>>

-----------------------------------------------------------------------------
(* Characters and the string primitives of Python the program uses.        *)

UPPER  == "ABCDEFGHIJKLMNOPQRSTUVWXYZ"
LOWER  == "abcdefghijklmnopqrstuvwxyz"
DIGITS == "0123456789"
\* the printable ASCII characters in code-point order: 32..95 and 97..126
ASCII_32 == " !\"#$%&'()*+,-./0123456789:;<=>?@ABCDEFGHIJKLMNOPQRSTUVWXYZ[\\]^_"
ASCII_97 == "abcdefghijklmnopqrstuvwxyz{|}~"

Char(s, i) == SubSeq(s, i, i)

IndexIn(s, c) == IF \E i \in 1..Len(s) : Char(s, i) = c
                 THEN CHOOSE i \in 1..Len(s) : Char(s, i) = c
                 ELSE 0

UpperSet == {Char(UPPER, i) : i \in 1..26}
DigitSet == {Char(DIGITS, i) : i \in 1..10}

\* ord(ch), as a table over the printable ASCII characters
OrdOf ==
    [c \in {Char(ASCII_32, i) : i \in 1..Len(ASCII_32)}
            \cup {Char(ASCII_97, i) : i \in 1..Len(ASCII_97)} |->
        IF IndexIn(ASCII_32, c) > 0 THEN IndexIn(ASCII_32, c) + 31
        ELSE IndexIn(ASCII_97, c) + 96]

Ord(c) == OrdOf[c]

\* ch.lower() of an upper-case letter, and the value of a decimal digit
LowerOf == [c \in UpperSet |-> Char(LOWER, IndexIn(UPPER, c))]
DigitOf == [c \in DigitSet |-> IndexIn(DIGITS, c) - 1]

IsUpper(c) == c \in UpperSet
IsDigit(c) == c \in DigitSet
\* the characters str.strip() removes
IsSpace(c) == c \in {" ", "\t", "\n", "\r", "\f"}

\* sub in s
Contains(s, sub) ==
    \E i \in 0..(Len(s) - Len(sub)) : SubSeq(s, i + 1, i + Len(sub)) = sub

\* s.startswith(pre)
StartsWith(s, pre) == Len(pre) <= Len(s) /\ SubSeq(s, 1, Len(pre)) = pre

RECURSIVE Lower(_)
\* s.lower(): every upper-case letter replaced, left to right
Lower(s) ==
    IF \A i \in 1..Len(s) : ~IsUpper(Char(s, i)) THEN s
    ELSE LET i == CHOOSE i \in 1..Len(s) :
                      IsUpper(Char(s, i)) /\ \A j \in 1..(i - 1) : ~IsUpper(Char(s, j))
         IN  SubSeq(s, 1, i - 1) \o LowerOf[Char(s, i)] \o Lower(SubSeq(s, i + 1, Len(s)))

RECURSIVE FirstInk(_, _)
\* the index of the first non-blank character of s from i on, else Len(s) + 1
FirstInk(s, i) ==
    IF i > Len(s) \/ ~IsSpace(Char(s, i)) THEN i ELSE FirstInk(s, i + 1)

RECURSIVE LastInk(_, _)
\* the index of the last non-blank character of s up to i, else 0
LastInk(s, i) ==
    IF i < 1 \/ ~IsSpace(Char(s, i)) THEN i ELSE LastInk(s, i - 1)

\* s.strip()
Strip(s) == SubSeq(s, FirstInk(s, 1), LastInk(s, Len(s)))

RECURSIVE UnifyNewlines(_)
\* s.replace('\r\n', '\n').replace('\r', '\n'): every "\r\n" and every
\* other "\r" becomes "\n"
UnifyNewlines(s) ==
    IF \A i \in 1..Len(s) : Char(s, i) # "\r" THEN s
    ELSE LET i == CHOOSE i \in 1..Len(s) :
                      Char(s, i) = "\r" /\ \A j \in 1..(i - 1) : Char(s, j) # "\r"
             k == IF i < Len(s) /\ Char(s, i + 1) = "\n" THEN i + 2 ELSE i + 1
         IN  SubSeq(s, 1, i - 1) \o "\n" \o UnifyNewlines(SubSeq(s, k, Len(s)))

normalize_text(v) == Strip(UnifyNewlines(v))

RECURSIVE DigitsValue(_, _, _)
\* the integer a run of decimal digits s[i..] denotes, continuing from acc
DigitsValue(s, i, acc) ==
    IF i > Len(s) THEN acc
    ELSE DigitsValue(s, i + 1, acc * 10 + DigitOf[Char(s, i)])

AllDigits(s) == Len(s) > 0 /\ \A i \in 1..Len(s) : IsDigit(Char(s, i))

RECURSIVE IntToStr(_)
\* str(n) for n >= 0
IntToStr(n) ==
    IF n < 10 THEN Char(DIGITS, n + 1)
    ELSE IntToStr(n \div 10) \o Char(DIGITS, (n % 10) + 1)

RECURSIVE ZeroPad(_, _)
\* the zero-padded decimal of n on at least w digits (%Y, %m, %d)
ZeroPad(n, w) == LET s == IntToStr(n)
                 IN  IF Len(s) >= w THEN s ELSE "0" \o ZeroPad(n, w - 1)

-----------------------------------------------------------------------------
(* col_to_num                                                              *)

RECURSIVE ColLoopOrd65(_, _, _)
\* a zero-based letter value: ord(ch) - 65
ColLoopOrd65(c, i, n) ==
    IF i > Len(c) THEN n
    ELSE ColLoopOrd65(c, i + 1, n * 26 + (Ord(Char(c, i)) - 65))

RECURSIVE ColLoop(_, _, _)
\* for ch in col: n = n * 26 + (ord(ch) - 64)
ColLoop(c, i, n) ==
    IF i > Len(c) THEN n
    ELSE ColLoop(c, i + 1, n * 26 + (Ord(Char(c, i)) - 64))

col_to_num(c) == ColLoop(c, 1, 0)


ColIdle == col = "" /\ colRes = 0 /\ colPc = "idle"

-----------------------------------------------------------------------------
(* excel_serial_to_iso                                                     *)

\* re.fullmatch(r'\d+(?:\.0+)?', v)
MatchesSerial(v) ==
    \E k \in 1..Len(v) :
        /\ AllDigits(SubSeq(v, 1, k))
        /\ \/ k = Len(v)
           \/ /\ Len(v) >= k + 2
              /\ Char(v, k + 1) = "."
              /\ \A j \in (k + 2)..Len(v) : Char(v, j) = "0"

\* int(float(v)) for a v that matches: the digits before the point
\* (exact below 2^53, far above every day count that has a date)
SerialInt(v) ==
    LET k == IF IndexIn(v, ".") > 0 THEN IndexIn(v, ".") - 1 ELSE Len(v)
    IN  DigitsValue(SubSeq(v, 1, k), 1, 0)

\* datetime's proleptic Gregorian ordinal: 0001-01-01 is day 1
DaysBeforeYear(y) ==
    (y - 1) * 365 + ((y - 1) \div 4) - ((y - 1) \div 100) + ((y - 1) \div 400)

IsLeapYear(y) == y % 4 = 0 /\ (y % 100 # 0 \/ y % 400 = 0)

DAYS_IN_MONTH == <<31, 28, 31, 30, 31, 30, 31, 31, 30, 31, 30, 31>>

DaysInMonth(y, m) == IF m = 2 /\ IsLeapYear(y) THEN 29 ELSE DAYS_IN_MONTH[m]

RECURSIVE DaysBeforeMonth(_, _)
DaysBeforeMonth(y, m) ==
    IF m = 1 THEN 0 ELSE DaysBeforeMonth(y, m - 1) + DaysInMonth(y, m - 1)

\* datetime(y, m, d).toordinal()
Ymd2Ord(y, m, d) == DaysBeforeYear(y) + DaysBeforeMonth(y, m) + d

\* the largest ordinal datetime holds: 9999-12-31
MAXORDINAL == 3652059

\* datetime.fromordinal(n): the year, month and day of ordinal n, by the
\* 400-, 100-, 4- and 1-year cycles
Ord2Ymd(n) ==
    LET n0   == n - 1
        n400 == n0 \div 146097
        r400 == n0 % 146097
        n100 == r400 \div 36524
        r100 == r400 % 36524
        n4   == r100 \div 1461
        r4   == r100 % 1461
        n1   == r4 \div 365
        r1   == r4 % 365
        year == n400 * 400 + 1 + n100 * 100 + n4 * 4 + n1
    IN  IF n1 = 4 \/ n100 = 4
        THEN [y |-> year - 1, m |-> 12, d |-> 31]
        ELSE LET month == CHOOSE m \in 1..12 :
                              /\ DaysBeforeMonth(year, m) <= r1
                              /\ r1 < DaysBeforeMonth(year, m) + DaysInMonth(year, m)
             IN  [y |-> year, m |-> month,
                  d |-> r1 - DaysBeforeMonth(year, month) + 1]

\* strftime('%Y-%m-%d')
FormatIso(t) == ZeroPad(t.y, 4) \o "-" \o ZeroPad(t.m, 2) \o "-" \o ZeroPad(t.d, 2)

\* the epoch one day late: datetime(1899, 12, 31)
EpochPlusDays1900(n) ==
    LET o == Ymd2Ord(1899, 12, 31) + n
    IN  IF o > MAXORDINAL
        THEN [raised |-> TRUE, val |-> "OverflowError"]
        ELSE [raised |-> FALSE, val |-> FormatIso(Ord2Ymd(o))]

\* (datetime(1899, 12, 30) + timedelta(days=n)).strftime('%Y-%m-%d');
\* the sum raises OverflowError past the last date datetime holds
EpochPlusDays(n) ==
    LET o == Ymd2Ord(1899, 12, 30) + n
    IN  IF o > MAXORDINAL
        THEN [raised |-> TRUE, val |-> "OverflowError"]
        ELSE [raised |-> FALSE, val |-> FormatIso(Ord2Ymd(o))]

Returned(s) == [raised |-> FALSE, val |-> s]

\* the guard n < 0 in place of n <= 0
excel_serial_to_iso_lt(v0) ==
    LET v == Strip(v0)
    IN  IF v = "" THEN Returned("")
        ELSE IF MatchesSerial(v)
             THEN IF SerialInt(v) < 0 THEN Returned("")
                  ELSE EpochPlusDays(SerialInt(v))
        ELSE Returned(v)

excel_serial_to_iso(v0) ==
    LET v == Strip(v0)
    IN  IF v = "" THEN Returned("")
        ELSE IF MatchesSerial(v)
             THEN IF SerialInt(v) <= 0 THEN Returned("")
                  ELSE EpochPlusDays(SerialInt(v))
        ELSE Returned(v)

IsoIdle == value = "" /\ isoRes = Returned("") /\ isoPc = "idle"

-----------------------------------------------------------------------------
(* find_header_row, get, is_headerish.  A row is a sequence of cell texts, *)
(* a grid a sequence of rows; row and column indices are 0-based as in the *)
(* program, so row i of the grid is rows[i + 1].                           *)

\* the value dict.get gives for a missing key
None == -1

RECURSIVE JoinFrom(_, _)
\* ' | '.join(normalize_text(x).lower() for x in row)
JoinFrom(row, j) ==
    IF j > Len(row) THEN ""
    ELSE Lower(normalize_text(row[j]))
         \o (IF j < Len(row) THEN " | " ELSE "")
         \o JoinFrom(row, j + 1)

Joined(row) == JoinFrom(row, 1)

\* any(...) in place of all(...)
HasAnyKey(row, must_have) ==
    LET joined == Joined(row)
    IN  \E k \in 1..Len(must_have) : Contains(joined, must_have[k])

\* all(k in joined for k in must_have)
HasAllKeys(row, must_have) ==
    LET joined == Joined(row)
    IN  \A k \in 1..Len(must_have) : Contains(joined, must_have[k])

\* {normalize_text(v).lower(): idx for idx, v in enumerate(row)}: a repeated
\* title keeps its last index
HeaderMap(row) ==
    LET title == [j \in 1..Len(row) |-> Lower(normalize_text(row[j]))]
    IN  [t \in {title[j] : j \in 1..Len(row)} |->
            (CHOOSE j \in 1..Len(row) :
                /\ title[j] = t
                /\ \A j2 \in (j + 1)..Len(row) : title[j2] # t) - 1]

RECURSIVE HeaderScan(_, _, _)
\* for i, row in enumerate(rows): the first row holding every key, else raise
HeaderScan(rs, must_have, i) ==
    IF i >= Len(rs)
    THEN [raised |-> TRUE, h |-> None, cols |-> <<>>]
    ELSE IF HasAllKeys(rs[i + 1], must_have)
         THEN [raised |-> FALSE, h |-> i, cols |-> HeaderMap(rs[i + 1])]
         ELSE HeaderScan(rs, must_have, i + 1)

find_header_row(rs, must_have) == HeaderScan(rs, must_have, 0)

\* cols.get(title)
ColsGet(cs, title) == IF title \in DOMAIN cs THEN cs[title] ELSE None

get(row, i) == IF i = None \/ i >= Len(row) THEN "" ELSE normalize_text(row[i + 1])

\* equality with a phrase in place of containment
is_headerish_exact(v, phrases) ==
    LET lv == Lower(normalize_text(v))
    IN  lv = "" \/ lv \in phrases

is_headerish(v, phrases) ==
    LET lv == Lower(normalize_text(v))
    IN  lv = "" \/ \E p \in phrases : Contains(lv, p)

HdrIdle == hRows = <<>> /\ hKeys = <<>> /\ hPc = "idle"
           /\ hRes = [raised |-> FALSE, h |-> None, cols |-> <<>>]

-----------------------------------------------------------------------------
(* The schema extractors.  Each parse_* function is one instance of the    *)
(* same loop; its header keywords, identifier prefix, identity column,     *)
(* caption phrases and field table are those of its source text.           *)

\* a record field: its key, the column titles tried in order (joined by
\* `or` in the source), and whether excel_serial_to_iso is applied
F(name, titles, date) == [name |-> name, titles |-> titles, date |-> date]

DriversSchema ==
    [fn |-> "parse_drivers", prefix |-> "sep",
     keys |-> <<"driver name", "home base", "availability">>,
     identTitle |-> "driver name:", identField |-> "name",
     phrases |-> {"driver name", "past drivers", "drivers that have been dismissed"},
     fields |-> << F("name", <<"driver name:">>, FALSE),
                   F("homeBase", <<"home base:">>, FALSE),
                   F("position", <<"position / \ndivision", "position / division">>, FALSE),
                   F("notes", <<"driver availability & constraints">>, FALSE),
                   F("twic", <<"twic card", "twic card ">>, FALSE) >>,
     extras |-> {"hiredCity", "currentCity", "preferredPartner", "routeRestrictions"}]

LeadsSchema ==
    [fn |-> "parse_leads", prefix |-> "lead",
     keys |-> <<"driver name", "date of position acceptance", "date sent to phase 2">>,
     identTitle |-> "driver name", identField |-> "name",
     phrases |-> {"driver name"},
     fields |-> << F("name", <<"driver name">>, FALSE),
                   F("dateAccepted", <<"date of position acceptance">>, TRUE),
                   F("dateSentPhase2", <<"date sent to phase 2">>, TRUE),
                   F("position", <<"position">>, FALSE),
                   F("recruiter", <<"recruiter">>, FALSE),
                   F("notes", <<"notes">>, FALSE) >>,
     extras |-> {}]

OtrSchema(prefix) ==
    [fn |-> "parse_otr", prefix |-> prefix,
     keys |-> <<"driver name", "ajg dt", "gh dt", "onboarding training">>,
     identTitle |-> "driver name", identField |-> "name",
     phrases |-> {"driver name"},
     fields |-> << F("passed", <<"passed">>, TRUE),
                   F("name", <<"driver name">>, FALSE),
                   F("age", <<"age">>, FALSE),
                   F("position", <<"position">>, FALSE),
                   F("yoe", <<"years of experience">>, FALSE),
                   F("phone", <<"phone#">>, FALSE),
                   F("location", <<"location">>, FALSE),
                   F("ajgCH", <<"ajg ch">>, FALSE),
                   F("ghCH", <<"gh ch">>, FALSE),
                   F("i9", <<"i9">>, FALSE),
                   F("nhpw", <<"nhpw">>, FALSE),
                   F("ajgDT", <<"ajg dt">>, FALSE),
                   F("ghDT", <<"gh dt">>, FALSE),
                   F("onboarding", <<"onboarding training">>, FALSE),
                   F("insurance", <<"added to insurance">>, FALSE),
                   F("gtg", <<"gtg?">>, FALSE),
                   F("dispatched", <<"dispatched">>, FALSE),
                   F("notes", <<"notes">>, FALSE),
                   F("rtgDate", <<"rtg date">>, TRUE) >>,
     extras |-> {}]

Ag4HiresSchema ==
    [fn |-> "parse_ag4_hires", prefix |-> "ag4",
     keys |-> <<"driver name", "ag4 dt", "dot medical", "onboarding training">>,
     identTitle |-> "driver name", identField |-> "name",
     phrases |-> {"driver name"},
     fields |-> << F("passed", <<"passed">>, TRUE),
                   F("name", <<"driver name">>, FALSE),
                   F("age", <<"age">>, FALSE),
                   F("position", <<"position">>, FALSE),
                   F("yoe", <<"yoe">>, FALSE),
                   F("phone", <<"phone#">>, FALSE),
                   F("location", <<"location">>, FALSE),
                   F("rtgDate", <<"rtg date">>, TRUE),
                   F("nhpw", <<"nhpw">>, FALSE),
                   F("i9", <<"i9 call completed">>, FALSE),
                   F("ag4DT", <<"ag4 dt">>, FALSE),
                   F("dotMedical", <<"dot medical test">>, FALSE),
                   F("onboarding", <<"onboarding training">>, FALSE),
                   F("insurance", <<"added to insurance">>, FALSE),
                   F("gtg", <<"gtg?">>, FALSE),
                   F("dispatched", <<"dispatched">>, FALSE),
                   F("notes", <<"notes">>, FALSE) >>,
     extras |-> {}]

Ag4SepSchema ==
    [fn |-> "parse_ag4_sep", prefix |-> "ag4sep",
     keys |-> <<"driver name", "ag4 dt", "onboarding training", "return date">>,
     identTitle |-> "driver name", identField |-> "name",
     phrases |-> {"driver name"},
     fields |-> << F("passed", <<"passed">>, TRUE),
                   F("name", <<"driver name">>, FALSE),
                   F("nhpw", <<"nhpw">>, FALSE),
                   F("ag4DT", <<"ag4 dt">>, FALSE),
                   F("onboarding", <<"onboarding training">>, FALSE),
                   F("insurance", <<"added to insurance">>, FALSE),
                   F("gtg", <<"gtg?">>, FALSE),
                   F("dispatched", <<"dispatched">>, FALSE),
                   F("notes", <<"notes">>, FALSE),
                   F("rtgDate", <<"rtg date">>, TRUE),
                   F("returnDate", <<"return date">>, TRUE),
                   F("location", <<"location">>, FALSE),
                   F("phone", <<"number">>, FALSE),
                   F("position", <<"position">>, FALSE) >>,
     extras |-> {}]

HistoricalSchema ==
    [fn |-> "parse_historical", prefix |-> "hist",
     keys |-> <<"last name", "first name", "termination date">>,
     identTitle |-> "last name", identField |-> "lastName",
     phrases |-> {"last name", "past drivers", "drivers that have been dismissed"},
     fields |-> << F("lastName", <<"last name">>, FALSE),
                   F("firstName", <<"first name">>, FALSE),
                   F("position", <<"position">>, FALSE),
                   F("terminationDate", <<"termination date">>, TRUE),
                   F("incentives", <<"incentives", "incentives ">>, FALSE) >>,
     extras |-> {}]

RECURSIVE OrChainFirstPresent(_, _, _, _)
\* the cell of the first title the header map holds, empty or not
OrChainFirstPresent(titles, j, cs, row) ==
    IF j = Len(titles) \/ titles[j] \in DOMAIN cs
    THEN get(row, ColsGet(cs, titles[j]))
    ELSE OrChainFirstPresent(titles, j + 1, cs, row)

RECURSIVE OrChain(_, _, _, _)
\* get(row, cols.get(t1)) or get(row, cols.get(t2)) or ...: the first
\* non-empty cell text, else the last operand
OrChain(titles, j, cs, row) ==
    LET v == get(row, ColsGet(cs, titles[j]))
    IN  IF j = Len(titles) \/ v # "" THEN v
        ELSE OrChain(titles, j + 1, cs, row)

\* one field of the record of a row: [raised, val]
FieldValue(f, cs, row) ==
    LET v == OrChain(f.titles, 1, cs, row)
    IN  IF f.date THEN excel_serial_to_iso(v) ELSE Returned(v)

FieldNames(sch) == {sch.fields[j].name : j \in 1..Len(sch.fields)}

FieldOf(sch, name) ==
    sch.fields[CHOOSE j \in 1..Len(sch.fields) : sch.fields[j].name = name]

\* numbering from 0: f'{prefix}_{len(out)}'
NextIdFromZero(prefix, n) == prefix \o "_" \o IntToStr(n)

\* f'{prefix}_{len(out)+1}'
NextId(prefix, n) == prefix \o "_" \o IntToStr(n + 1)

\* The body of the loop over rows[h + 1:] for one row, with n records
\* emitted so far: which way the row leaves the body, and the record
RowStep(sch, cs, row, n) ==
    LET name == get(row, ColsGet(cs, sch.identTitle))
        vals == [k \in FieldNames(sch) |-> FieldValue(FieldOf(sch, k), cs, row)]
        rec  == [k \in {"id"} \cup FieldNames(sch) \cup sch.extras |->
                    IF k = "id" THEN NextId(sch.prefix, n)
                    ELSE IF k \in sch.extras THEN ""
                    ELSE vals[k].val]
    IN  IF is_headerish(name, sch.phrases)
        THEN [kind |-> "skip_header", rec |-> <<>>]
        ELSE IF \E k \in FieldNames(sch) : vals[k].raised
        THEN [kind |-> "raise", rec |-> <<>>]
        ELSE IF \A k \in FieldNames(sch) : rec[k] = ""
        THEN [kind |-> "skip_blank", rec |-> <<>>]
        ELSE IF rec[sch.identField] = ""
        THEN [kind |-> "skip_noname", rec |-> <<>>]
        ELSE [kind |-> "emit", rec |-> rec]

RECURSIVE RowLoop(_, _, _, _, _)
\* for row in rows[h + 1:], from 0-based row i on, with acc emitted so far
RowLoop(sch, cs, rs, i, acc) ==
    IF i >= Len(rs) THEN [raised |-> FALSE, err |-> "", out |-> acc]
    ELSE LET st == RowStep(sch, cs, rs[i + 1], Len(acc))
         IN  IF st.kind = "raise"
             THEN [raised |-> TRUE, err |-> "OverflowError", out |-> <<>>]
             ELSE RowLoop(sch, cs, rs, i + 1,
                          IF st.kind = "emit" THEN Append(acc, st.rec) ELSE acc)

\* a parse_* function as a whole: the records, or the exception it raises
Parse(sch, rs) ==
    LET hd == find_header_row(rs, sch.keys)
    IN  IF hd.raised
        THEN [raised |-> TRUE, err |-> "HeaderNotFound", out |-> <<>>]
        ELSE RowLoop(sch, hd.cols, rs, hd.h + 1, <<>>)

parse_drivers(rs)     == Parse(DriversSchema, rs)
parse_leads(rs)       == Parse(LeadsSchema, rs)
parse_otr(rs, prefix) == Parse(OtrSchema(prefix), rs)
parse_ag4_hires(rs)   == Parse(Ag4HiresSchema, rs)
parse_ag4_sep(rs)     == Parse(Ag4SepSchema, rs)
parse_historical(rs)  == Parse(HistoricalSchema, rs)

ParseIdle == /\ schema = <<>> /\ rows = <<>> /\ hdr = None /\ cols = <<>>
             /\ out = <<>> /\ idx = 0 /\ pc = "idle" /\ last = "none"

-----------------------------------------------------------------------------
(* dedupe_otr                                                              *)

\* r.get(k, '')
RecGet(r, k) == IF k \in DOMAIN r THEN r[k] ELSE ""

\* the name compared as written, not lower-cased
DedupeKeyCased(r) ==
    << normalize_text(RecGet(r, "name")),
       normalize_text(RecGet(r, "phone")),
       normalize_text(RecGet(r, "passed")),
       normalize_text(RecGet(r, "rtgDate")) >>

DedupeKey(r) ==
    << Lower(normalize_text(RecGet(r, "name"))),
       normalize_text(RecGet(r, "phone")),
       normalize_text(RecGet(r, "passed")),
       normalize_text(RecGet(r, "rtgDate")) >>

RECURSIVE DedupeLoop(_, _, _, _)
\* for r in records: keep r unless its key was seen
DedupeLoop(rs, i, seen, acc) ==
    IF i > Len(rs) THEN acc
    ELSE IF DedupeKey(rs[i]) \in seen
         THEN DedupeLoop(rs, i + 1, seen, acc)
         ELSE DedupeLoop(rs, i + 1, seen \cup {DedupeKey(rs[i])}, Append(acc, rs[i]))

\* for i, r in enumerate(out, 1): r['id'] = f'otr_{i}'
Renumber(rs) ==
    [i \in 1..Len(rs) |->
        [k \in DOMAIN rs[i] \cup {"id"} |->
            IF k = "id" THEN "otr_" \o IntToStr(i) ELSE rs[i][k]]]

dedupe_otr(rs) == Renumber(DedupeLoop(rs, 1, {}, <<>>))

DedupeIdle == records = <<>> /\ dOut = <<>> /\ dPc = "idle"

-----------------------------------------------------------------------------
(* load_workbook_rows.  A worksheet is its sequence of row elements, a row *)
(* element its sequence of cell elements; a cell element is                *)
(*   [r: the 'r' attribute ("" when absent), t: the 't' attribute,         *)
(*    hasIs/isText: the inline-string text node, hasV/vText: the v node].  *)

RECURSIVE UpperRun(_, _)
\* the length of the run of upper-case letters s starts with from i
UpperRun(s, i) ==
    IF i <= Len(s) /\ IsUpper(Char(s, i)) THEN 1 + UpperRun(s, i + 1) ELSE 0

\* re.match(r'([A-Z]+)(\d+)', ref): whether it matches, and group 1
RefMatches(ref) ==
    LET k == UpperRun(ref, 1)
    IN  k >= 1 /\ k < Len(ref) /\ IsDigit(Char(ref, k + 1))

RefLetters(ref) == SubSeq(ref, 1, UpperRun(ref, 1))

\* int(txt) of the text of a v node: [ok, n]; surrounding blanks and one
\* sign are accepted, anything else is a ValueError
IntOf(txt) ==
    LET t == Strip(txt)
        signed == Len(t) > 0 /\ Char(t, 1) \in {"+", "-"}
        body == IF signed THEN SubSeq(t, 2, Len(t)) ELSE t
    IN  IF AllDigits(body)
        THEN [ok |-> TRUE,
              n |-> IF signed /\ Char(t, 1) = "-"
                    THEN 0 - DigitsValue(body, 1, 0)
                    ELSE DigitsValue(body, 1, 0)]
        ELSE [ok |-> FALSE, n |-> 0]

\* try: shared[int(txt)] except Exception: txt   (a negative index counts
\* from the end of the list)
SharedLookup(sh, txt) ==
    LET p == IntOf(txt)
    IN  IF ~p.ok THEN txt
        ELSE IF p.n >= 0 /\ p.n < Len(sh) THEN sh[p.n + 1]
        ELSE IF p.n < 0 /\ 0 - p.n <= Len(sh) THEN sh[Len(sh) + p.n + 1]
        ELSE txt

\* the text of one cell element
CellValue(c, sh) ==
    IF c.hasIs THEN c.isText
    ELSE IF ~c.hasV THEN ""
    ELSE IF c.t = "s" THEN SharedLookup(sh, c.vText)
    ELSE c.vText

RECURSIVE CellLoop(_, _, _, _)
\* for c in rr.findall('c'): vals[col] = val, skipping unaddressed cells
CellLoop(cells, j, sh, vals) ==
    IF j > Len(cells) THEN vals
    ELSE IF ~RefMatches(cells[j].r) THEN CellLoop(cells, j + 1, sh, vals)
    ELSE LET cn == col_to_num(RefLetters(cells[j].r))
             val == CellValue(cells[j], sh)
         IN  CellLoop(cells, j + 1, sh,
                      [k \in DOMAIN vals \cup {cn} |->
                          IF k = cn THEN val ELSE vals[k]])

SetMax(S) == CHOOSE x \in S : \A y \in S : y <= x

\* the populated cells packed side by side, no gap filled
DenseRowPacked(vals) ==
    [i \in 1..Cardinality(DOMAIN vals) |->
        vals[CHOOSE c \in DOMAIN vals : Cardinality({d \in DOMAIN vals : d <= c}) = i]]

\* [vals.get(i, '') for i in range(1, mx + 1)]
DenseRow(vals) ==
    [i \in 1..SetMax(DOMAIN vals) |-> IF i \in DOMAIN vals THEN vals[i] ELSE ""]

RECURSIVE SheetRows(_, _, _, _)
\* for rr in ...sheetData/row: append the dense row when vals is non-empty
SheetRows(drs, i, sh, acc) ==
    IF i > Len(drs) THEN acc
    ELSE LET vals == CellLoop(drs[i], 1, sh, <<>>)
         IN  SheetRows(drs, i + 1, sh,
                       IF DOMAIN vals # {} THEN Append(acc, DenseRow(vals)) ELSE acc)

RECURSIVE SheetLoop(_, _, _)
\* for s in wb.find('sheets'): sheets[name] = rows, skipping the targets
\* outside worksheets/
SheetLoop(wb, i, acc) ==
    IF i > Len(wb.sheets) THEN acc
    ELSE LET s == wb.sheets[i]
         IN  IF ~StartsWith(s.target, "worksheets/")
             THEN SheetLoop(wb, i + 1, acc)
             ELSE SheetLoop(wb, i + 1,
                      [n \in DOMAIN acc \cup {s.name} |->
                          IF n = s.name THEN SheetRows(s.rows, 1, wb.shared, <<>>)
                          ELSE acc[n]])

\* a workbook is [shared: the shared strings, sheets: the sheet entries
\* [name, target (relmap.get(rid, '')), rows]]
load_workbook_rows(wb) == SheetLoop(wb, 1, <<>>)

LoadIdle == lWb = <<>> /\ lRes = <<>> /\ lPc = "idle"

-----------------------------------------------------------------------------
(* main: one action per statement                                          *)

SHEET_DRIVERS    == "Driver Utilization (Driver Sep)"
SHEET_LEADS      == "LEADS"
SHEET_OTR        == "OTR New Hires Status"
SHEET_AJGGH      == "AJGGH New Hires Status"
SHEET_AG4        == "AG4 New Hire Status"
SHEET_AG4SEP     == "AG4 Driver Sep"
SHEET_HISTORICAL == "Historical Drivers"

MainIdle == /\ workbook = <<>> /\ sheets = <<>> /\ locals = <<>> /\ written = <<>>
            /\ mErr = "" /\ mPc = "idle"

\* sheets = load_workbook_rows(WORKBOOK)
MainLoad ==
    /\ mPc = "load"
    /\ sheets' = load_workbook_rows(workbook)
    /\ mPc' = "drivers"
    /\ UNCHANGED <<workbook, locals, written, mErr>>
    /\ UNCHANGED <<colVars, isoVars, hVars, pVars, dVars, lVars>>

\* a failure swallowed: the category left empty and the run carried on
MainParseSwallow(at, name, sch, local, next) ==
    /\ mPc = at
    /\ LET r == IF name \in DOMAIN sheets THEN Parse(sch, sheets[name])
                ELSE [raised |-> TRUE, err |-> "KeyError", out |-> <<>>]
       IN  /\ mPc' = next /\ UNCHANGED mErr
           /\ locals' = [k \in DOMAIN locals \cup {local} |->
                            IF k = local THEN (IF r.raised THEN <<>> ELSE r.out)
                            ELSE locals[k]]
    /\ UNCHANGED <<workbook, sheets, written>>
    /\ UNCHANGED <<colVars, isoVars, hVars, pVars, dVars, lVars>>

\* <local> = parse_*(sheets[<name>]): a missing name raises KeyError, the
\* extractor may raise; either ends the run
MainParse(at, name, sch, local, next) ==
    /\ mPc = at
    /\ IF name \notin DOMAIN sheets
       THEN /\ mPc' = "aborted" /\ mErr' = "KeyError"
            /\ UNCHANGED locals
       ELSE LET r == Parse(sch, sheets[name])
            IN  IF r.raised
                THEN /\ mPc' = "aborted" /\ mErr' = r.err
                     /\ UNCHANGED locals
                ELSE /\ mPc' = next /\ UNCHANGED mErr
                     /\ locals' = [k \in DOMAIN locals \cup {local} |->
                                      IF k = local THEN r.out ELSE locals[k]]
    /\ UNCHANGED <<workbook, sheets, written>>
    /\ UNCHANGED <<colVars, isoVars, hVars, pVars, dVars, lVars>>

MainDrivers  == MainParse("drivers", SHEET_DRIVERS, DriversSchema, "drivers", "leads")
MainLeads    == MainParse("leads", SHEET_LEADS, LeadsSchema, "leads", "otr_main")
MainOtrMain  == MainParse("otr_main", SHEET_OTR, OtrSchema("otrmain"), "otr_main", "otr_ajggh")
MainOtrAjggh == MainParse("otr_ajggh", SHEET_AJGGH, OtrSchema("otrajggh"), "otr_ajggh", "dedupe")

\* otr = dedupe_otr(otr_main + otr_ajggh)
MainDedupe ==
    /\ mPc = "dedupe"
    /\ locals' = [k \in DOMAIN locals \cup {"otr"} |->
                     IF k = "otr"
                     THEN dedupe_otr(locals["otr_main"] \o locals["otr_ajggh"])
                     ELSE locals[k]]
    /\ mPc' = "ag4_hires"
    /\ UNCHANGED <<workbook, sheets, written, mErr>>
    /\ UNCHANGED <<colVars, isoVars, hVars, pVars, dVars, lVars>>

MainAg4Hires   == MainParse("ag4_hires", SHEET_AG4, Ag4HiresSchema, "ag4_hires", "ag4_sep")
MainAg4Sep     == MainParse("ag4_sep", SHEET_AG4SEP, Ag4SepSchema, "ag4_sep", "historical")
MainHistorical == MainParse("historical", SHEET_HISTORICAL, HistoricalSchema, "historical", "write")

\* db = {...}; OUT_JSON.write_text(json.dumps(db, ...))
MainWrite ==
    /\ mPc = "write"
    /\ written' = Append(written,
                   [driversSep |-> locals["drivers"], leads |-> locals["leads"],
                    otrHires |-> locals["otr"], ag4Hires |-> locals["ag4_hires"],
                    ag4Sep |-> locals["ag4_sep"], historical |-> locals["historical"]])
    /\ mPc' = "done"
    /\ UNCHANGED <<workbook, sheets, locals, mErr>>
    /\ UNCHANGED <<colVars, isoVars, hVars, pVars, dVars, lVars>>

MainNext ==
    \/ MainLoad \/ MainDrivers \/ MainLeads \/ MainOtrMain \/ MainOtrAjggh
    \/ MainDedupe \/ MainAg4Hires \/ MainAg4Sep \/ MainHistorical \/ MainWrite

-----------------------------------------------------------------------------
(* col_to_num applied to every column-letter string up to MaxColLen        *)

MaxColLen == 2

RECURSIVE UpperStrings(_)
\* the strings of k upper-case letters
UpperStrings(k) ==
    IF k = 0 THEN {""}
    ELSE {s \o Char(UPPER, i) : s \in UpperStrings(k - 1), i \in 1..26}

ColInputs == UNION {UpperStrings(k) : k \in 1..MaxColLen}

ColInit == /\ col \in ColInputs /\ colRes = 0 /\ colPc = "call"
           /\ IsoIdle /\ HdrIdle /\ ParseIdle /\ DedupeIdle /\ MainIdle /\ LoadIdle

ColCall == /\ colPc = "call"
           /\ colRes' = col_to_num(col)
           /\ colPc' = "done"
           /\ UNCHANGED <<col, isoVars, hVars, pVars, dVars, mVars, lVars>>

SpecCol == ColInit /\ [][ColCall]_vars

-----------------------------------------------------------------------------
(* excel_serial_to_iso applied to cell texts                               *)

\* day counts 0..MaxSerial are tried in every spelling
MaxSerial == 1600

SerialSamples == {36585, 36586, 45000, 73050, 73051, 401769, 2958465, 2958466, 3000000}

IsoInputs ==
    LET ns == (0..MaxSerial) \cup SerialSamples
    IN  {IntToStr(n) : n \in ns}
        \cup {IntToStr(n) \o ".0" : n \in ns}
        \cup {"0" \o IntToStr(n) \o ".000" : n \in ns}
        \cup {"-" \o IntToStr(n) : n \in 0..9}
        \cup {"", " ", "N/A", "-5", "-5.0", "1.5", "1.", ".0", "12a", "a12", "1 2",
              "2023-03-15", "3/15/2023", "+5", "1.0.0", "1e3",
              " 45000 ", "\t1\r\n", " N/A ", "n/a\n"}

IsoInit == /\ value \in IsoInputs /\ isoRes = Returned("") /\ isoPc = "call"
           /\ ColIdle /\ HdrIdle /\ ParseIdle /\ DedupeIdle /\ MainIdle /\ LoadIdle

IsoCall == /\ isoPc = "call"
           /\ isoRes' = excel_serial_to_iso(value)
           /\ isoPc' = "done"
           /\ UNCHANGED <<value, colVars, hVars, pVars, dVars, mVars, lVars>>

SpecIso == IsoInit /\ [][IsoCall]_vars

-----------------------------------------------------------------------------
(* find_header_row applied to grids and keyword lists                      *)

MaxHdrRows == 3

\* the sequences over S of length at most n
RECURSIVE SeqsUpTo(_, _)
SeqsUpTo(S, n) ==
    IF n = 0 THEN {<<>>}
    ELSE LET shorter == SeqsUpTo(S, n - 1)
         IN  shorter \cup {Append(q, x) : q \in shorter, x \in S}

HdrRowSet ==
    { <<"Roster 2024">>,
      <<"Driver Name", "Home Base">>,
      <<" HOME BASE:\r\n", "Notes", "DRIVER NAME">>,
      <<"Driver Name", "Homes", "Base">>,
      <<"home", "base driver name">> }

HdrKeySet ==
    { <<"driver name", "home base">>, <<"home base", "driver name">>,
      <<"driver name">>, <<"notes", "home base", "driver name">>,
      <<"driver name", "Home Base">>, <<>> }

HdrInit == /\ hRows \in SeqsUpTo(HdrRowSet, MaxHdrRows)
           /\ hKeys \in HdrKeySet
           /\ hRes = [raised |-> FALSE, h |-> None, cols |-> <<>>]
           /\ hPc = "call"
           /\ ColIdle /\ IsoIdle /\ ParseIdle /\ DedupeIdle /\ MainIdle /\ LoadIdle

HdrCall == /\ hPc = "call"
           /\ hRes' = find_header_row(hRows, hKeys)
           /\ hPc' = IF hRes'.raised THEN "raised" ELSE "returned"
           /\ UNCHANGED <<hRows, hKeys, colVars, isoVars, pVars, dVars, mVars, lVars>>

SpecHdr == HdrInit /\ [][HdrCall]_vars

-----------------------------------------------------------------------------
(* One run of a schema extractor, row by row                               *)

MaxDataRows == 3

Schemas == { DriversSchema, LeadsSchema, OtrSchema("otrmain"),
             Ag4HiresSchema, Ag4SepSchema, HistoricalSchema }

\* a header row of each sheet: the identity title first, then a date title
\* where the schema has one
SampleHeader(sch) ==
    CASE sch.fn = "parse_drivers" ->
            <<"Driver Name:", "Home Base:", "Position / \nDivision",
              "Position / Division", "Driver Availability & Constraints", "TWIC Card ">>
      [] sch.fn = "parse_leads" ->
            <<"Driver Name", "Date of Position Acceptance", "Date Sent to Phase 2",
              "Position", "Recruiter", "Notes">>
      [] sch.fn = "parse_otr" ->
            <<"Driver Name", "Passed", "Phone#", "AJG DT", "GH DT",
              "Onboarding Training", "RTG Date", "Notes">>
      [] sch.fn = "parse_ag4_hires" ->
            <<"Driver Name", "Passed", "AG4 DT", "DOT Medical Test", "Onboarding Training">>
      [] sch.fn = "parse_ag4_sep" ->
            <<"Driver Name", "Passed", "AG4 DT", "Onboarding Training", "Return Date">>
      [] sch.fn = "parse_historical" ->
            <<"Last Name", "Termination Date", "First Name", "Position", "Incentives">>

\* ordinary rows under a header of width w: a full row, the header caption
\* repeated in lower case, a row with no identity text, a short row
CoreRows(sch) ==
    LET hd == SampleHeader(sch)
        w  == Len(hd)
    IN  { [j \in 1..w |-> IF j = 1 THEN "Ann" ELSE IF j = 2 THEN "45000" ELSE "x"],
          [j \in 1..w |-> Lower(hd[j])],
          [j \in 1..w |-> IF j = 1 THEN "" ELSE IF j = 2 THEN "45000" ELSE "x"],
          <<" Bob \r\n">> }

\* rarer rows: a blank row, a row with text only from column 4 on, a day
\* count past the last date, a caption row
SpecialRows(sch) ==
    LET w == Len(SampleHeader(sch))
    IN  { [j \in 1..w |-> ""],
          [j \in 1..w |-> IF j = 1 THEN "Cy" ELSE IF j < 4 THEN "" ELSE "fb"],
          <<"Dan", "2958466">>,
          <<"Past Drivers">> }

DataSeqs(sch) ==
    { q \in SeqsUpTo(CoreRows(sch) \cup SpecialRows(sch), MaxDataRows) :
        Cardinality({j \in 1..Len(q) : q[j] \in SpecialRows(sch)}) <= 1 }

ParseGrids(sch) ==
    { pre \o q : pre \in { <<>>, <<SampleHeader(sch)>>,
                           << <<"Master Driver Sep">>, SampleHeader(sch) >> },
                 q \in DataSeqs(sch) }

ParseInit == /\ schema \in Schemas
             /\ rows \in ParseGrids(schema)
             /\ hdr = None /\ cols = <<>> /\ out = <<>> /\ idx = 0
             /\ pc = "find" /\ last = "none"
             /\ ColIdle /\ IsoIdle /\ HdrIdle /\ DedupeIdle /\ MainIdle /\ LoadIdle

\* h, cols = find_header_row(rows, [...]); out = []
ParseFind ==
    /\ pc = "find"
    /\ UNCHANGED <<colVars, isoVars, hVars, dVars, mVars, lVars>>
    /\ \E hd \in {find_header_row(rows, schema.keys)} :
           IF hd.raised
           THEN /\ pc' = "raised" /\ last' = "HeaderNotFound"
                /\ UNCHANGED <<hdr, cols, idx>>
           ELSE /\ pc' = "loop" /\ hdr' = hd.h /\ cols' = hd.cols
                /\ idx' = hd.h + 1
                /\ UNCHANGED last
    /\ UNCHANGED <<schema, rows, out>>

\* one pass of the body of  for row in rows[h + 1:]
ParseRow ==
    /\ pc = "loop" /\ idx < Len(rows)
    /\ UNCHANGED <<colVars, isoVars, hVars, dVars, mVars, lVars>>
    /\ \E st \in {RowStep(schema, cols, rows[idx + 1], Len(out))} :
           /\ last' = st.kind
           /\ IF st.kind = "raise"
              THEN pc' = "raised" /\ UNCHANGED <<out, idx>>
              ELSE /\ out' = IF st.kind = "emit" THEN Append(out, st.rec) ELSE out
                   /\ idx' = idx + 1
                   /\ UNCHANGED pc
    /\ UNCHANGED <<schema, rows, hdr, cols>>

\* return out
ParseReturn ==
    /\ pc = "loop" /\ idx = Len(rows)
    /\ pc' = "returned"
    /\ UNCHANGED <<schema, rows, hdr, cols, out, idx, last>>
    /\ UNCHANGED <<colVars, isoVars, hVars, dVars, mVars, lVars>>

ParseNext == ParseFind \/ ParseRow \/ ParseReturn

SpecParse == ParseInit /\ [][ParseNext]_vars

-----------------------------------------------------------------------------
(* Properties of col_to_num                                                *)

RECURSIVE NumToCol(_)
\* the column letters of number n in the zero-digit-free base 26
NumToCol(n) ==
    IF n <= 0 THEN ""
    ELSE NumToCol((n - 1) \div 26) \o Char(UPPER, ((n - 1) % 26) + 1)

RECURSIVE ColTotal(_)
\* 26 + 26^2 + ... + 26^k
ColTotal(k) == IF k <= 0 THEN 0 ELSE 26 * (ColTotal(k - 1) + 1)

\* C8: col_to_num decodes by n = n*26 + letterValue with A=1..Z=26: A is 1,
\* Z is 26, AA is 27, AZ is 52, BA is 53; it is injective on the upper-case
\* strings up to MaxColLen letters (NumToCol recovers the argument from the
\* result), sends the strings of exactly k letters into
\* ColTotal(k-1)+1..ColTotal(k), and every number of 1..ColTotal(MaxColLen)
\* is the value of a string of at most MaxColLen letters.
ColToNumBijection ==
    colPc = "done" =>
        /\ (col = "A" => colRes = 1)
        /\ (col = "Z" => colRes = 26)
        /\ (col = "AA" => colRes = 27)
        /\ (col = "AZ" => colRes = 52)
        /\ (col = "BA" => colRes = 53)
        /\ NumToCol(colRes) = col
        /\ colRes \in (ColTotal(Len(col) - 1) + 1)..ColTotal(Len(col))
        /\ (col = "A" =>
               \A m \in 1..ColTotal(MaxColLen) :
                   /\ Len(NumToCol(m)) \in 1..MaxColLen
                   /\ col_to_num(NumToCol(m)) = m)

ColToNumWitness == colPc = "done" /\ col = "BA" /\ colRes = 53

-----------------------------------------------------------------------------
(* Properties of excel_serial_to_iso                                       *)

\* v is a run of digits, optionally followed by a point and zeros
IsSerialText(v) ==
    \E k \in 1..Len(v) : \E z \in 0..Len(v) :
        /\ Len(v) = k + (IF z = 0 THEN 0 ELSE z + 1)
        /\ \A j \in 1..k : Char(v, j) \in {"0", "1", "2", "3", "4", "5", "6", "7", "8", "9"}
        /\ z > 0 => /\ Char(v, k + 1) = "."
                    /\ \A j \in (k + 2)..Len(v) : Char(v, j) = "0"

\* the day count a serial text denotes
DayCount(v) ==
    LET k == CHOOSE k \in 1..Len(v) : k = Len(v) \/ Char(v, k + 1) = "."
    IN  DigitsValue(SubSeq(v, 1, k), 1, 0)

\* the days from 0000-03-01 to the civil date y-m-d, by the leap-year rule
CivilDayNumber(y, m, d) ==
    LET yy == IF m <= 2 THEN y - 1 ELSE y
        mm == IF m <= 2 THEN m + 9 ELSE m - 3
    IN  365 * yy + (yy \div 4) - (yy \div 100) + (yy \div 400)
        + ((153 * mm + 2) \div 5) + d - 1

ValidDate(y, m, d) ==
    /\ m \in 1..12
    /\ d >= 1
    /\ d <= (IF m \in {4, 6, 9, 11} THEN 30
             ELSE IF m # 2 THEN 31
             ELSE IF y % 4 = 0 /\ (y % 100 # 0 \/ y % 400 = 0) THEN 29 ELSE 28)

\* s is YYYY-MM-DD and names the date n days after 1899-12-30
IsEpochPlus(s, n) ==
    /\ Len(s) = 10
    /\ Char(s, 5) = "-" /\ Char(s, 8) = "-"
    /\ AllDigits(SubSeq(s, 1, 4)) /\ AllDigits(SubSeq(s, 6, 7)) /\ AllDigits(SubSeq(s, 9, 10))
    /\ LET y == DigitsValue(SubSeq(s, 1, 4), 1, 0)
           m == DigitsValue(SubSeq(s, 6, 7), 1, 0)
           d == DigitsValue(SubSeq(s, 9, 10), 1, 0)
       IN  /\ ValidDate(y, m, d)
           /\ CivilDayNumber(y, m, d) - CivilDayNumber(1899, 12, 30) = n

\* the largest day count that has a date: 9999-12-31
LastSerial == 2958465

\* C2 (as amended): a pure-digit text (optionally followed by .0, .00, ...)
\* that denotes a day count n with 1 <= n <= 2958465 gives the date
\* 1899-12-30 plus n days as YYYY-MM-DD, so "1" gives "1899-12-31" and
\* "45000" gives "2023-03-15"; a larger count raises OverflowError; every
\* trimmed text that is not of the pure-digit pattern is returned unchanged;
\* "" gives "".
IsoSerialRule ==
    isoPc = "done" =>
        /\ (IsSerialText(value) /\ DayCount(value) \in 1..LastSerial) =>
               (~isoRes.raised /\ IsEpochPlus(isoRes.val, DayCount(value)))
        /\ (IsSerialText(value) /\ DayCount(value) > LastSerial) => isoRes.raised
        /\ (value = "1" => isoRes = Returned("1899-12-31"))
        /\ (value = "45000" => isoRes = Returned("2023-03-15"))
        /\ (value = Strip(value) /\ ~IsSerialText(value)) => isoRes = Returned(value)
        /\ (value = "" => isoRes = Returned(""))

IsoSerialWitness ==
    /\ isoPc = "done" /\ value = "45000" /\ isoRes = Returned("2023-03-15")

\* C2 as claimed: every positive pure-digit day count gives its date, and
\* "1" gives "1900-01-01"
IsoSerialAsClaimed ==
    isoPc = "done" =>
        /\ (IsSerialText(value) /\ DayCount(value) >= 1) =>
               (~isoRes.raised /\ IsEpochPlus(isoRes.val, DayCount(value)))
        /\ (value = "1" => isoRes = Returned("1900-01-01"))
        /\ (value = "45000" => isoRes = Returned("2023-03-15"))
        /\ (value = Strip(value) /\ ~IsSerialText(value)) => isoRes = Returned(value)
        /\ (value = "" => isoRes = Returned(""))

\* v is a minus sign followed by a run of digits
IsNegativeText(v) == Len(v) >= 2 /\ Char(v, 1) = "-" /\ AllDigits(SubSeq(v, 2, Len(v)))

\* C3 (as amended): a pure-digit text whose day count is zero ("0", "00",
\* "0.0") gives ""; a negative number such as "-5" is not of the pure-digit
\* pattern and is returned unchanged.
IsoNonPositiveRule ==
    isoPc = "done" =>
        /\ (IsSerialText(value) /\ DayCount(value) = 0) => isoRes = Returned("")
        /\ IsNegativeText(value) => isoRes = Returned(value)

IsoNonPositiveWitness ==
    \/ isoPc = "done" /\ value = "0.0" /\ isoRes = Returned("")
    \/ isoPc = "done" /\ value = "-5" /\ isoRes = Returned("-5")

\* C3 as claimed: every text that denotes a non-positive day count, "0" and
\* "-5" among them, gives ""
IsoNonPositiveAsClaimed ==
    isoPc = "done" =>
        /\ (IsSerialText(value) /\ DayCount(value) = 0) => isoRes = Returned("")
        /\ IsNegativeText(value) => isoRes = Returned("")

-----------------------------------------------------------------------------
(* Properties of find_header_row                                           *)

\* row i (0-based) of the grid holds every keyword in its lower-cased text
RowHasKeys(i) ==
    \A k \in 1..Len(hKeys) : Contains(Joined(hRows[i + 1]), hKeys[k])

Reverse(q) == [j \in 1..Len(q) |-> q[Len(q) + 1 - j]]

\* C6: find_header_row returns the index of the first row whose lower-cased
\* joined text holds every keyword; no earlier row holds them all; the
\* result does not change when the keyword list is reversed nor, for
\* keywords free of the separator, when the cells of every row are reversed;
\* and it raises exactly when no row holds every keyword.
HeaderFirstMatch ==
    hPc \in {"returned", "raised"} =>
        /\ hPc = "raised" <=> \A i \in 0..(Len(hRows) - 1) : ~RowHasKeys(i)
        /\ hPc = "returned" =>
               /\ hRes.h \in 0..(Len(hRows) - 1)
               /\ RowHasKeys(hRes.h)
               /\ \A i \in 0..(hRes.h - 1) : ~RowHasKeys(i)
        /\ LET r == find_header_row(hRows, Reverse(hKeys))
           IN  r.raised = hRes.raised /\ r.h = hRes.h
        /\ (\A k \in 1..Len(hKeys) : ~Contains(hKeys[k], "|")) =>
               LET r == find_header_row([i \in 1..Len(hRows) |-> Reverse(hRows[i])], hKeys)
               IN  r.raised = hRes.raised /\ r.h = hRes.h

\* the header is row 2 after two rows that lack a keyword, with the
\* keywords in the row in the opposite order of the list
HeaderWitness ==
    /\ hPc = "returned" /\ hRes.h = 2
    /\ hKeys = <<"driver name", "home base">>
    /\ hRows[3] = <<" HOME BASE:\r\n", "Notes", "DRIVER NAME">>

-----------------------------------------------------------------------------
(* Properties of the schema extractors                                     *)

\* a row has been through the loop body: it is rows[idx]
RowDone == pc \in {"loop", "returned"} /\ idx > hdr + 1

LastRow == rows[idx]

HeaderRow == rows[hdr + 1]

\* the column (1-based) the header map gives the identity title of the
\* schema; 0 when the header row has no such title
IdentCol ==
    IF schema.identTitle \in DOMAIN cols THEN cols[schema.identTitle] + 1 ELSE 0

\* the trimmed text of a row in the identity column
IdentText(row) ==
    IF IdentCol = 0 \/ IdentCol > Len(row) THEN "" ELSE normalize_text(row[IdentCol])

\* the row repeats the header caption of the identity column, in any case
IsEcho(row) ==
    /\ IdentCol > 0 /\ IdentText(row) # ""
    /\ Lower(IdentText(row)) = Lower(normalize_text(HeaderRow[IdentCol]))

AllFieldsEmpty(row) ==
    \A k \in FieldNames(schema) : FieldValue(FieldOf(schema, k), cols, row).val = ""

\* the identity text is there and holds no caption phrase of the schema
Emits(row) ==
    /\ IdentText(row) # ""
    /\ \A p \in schema.phrases : ~Contains(Lower(IdentText(row)), p)

\* C1 (as amended): for every row after the header row that the loop has
\* gone through: a row whose identity text equals the header caption
\* (case-insensitively) is excluded; a row whose fields are all empty is
\* excluded; a row whose identity text is empty is excluded even when other
\* fields hold text; a row is retained exactly when its identity text is
\* non-empty and holds none of the schema's caption phrases.
SkipRules ==
    RowDone =>
        /\ IsEcho(LastRow) => last # "emit"
        /\ AllFieldsEmpty(LastRow) => last # "emit"
        /\ IdentText(LastRow) = "" => last # "emit"
        /\ last = "emit" <=> Emits(LastRow)
        /\ last = "emit" => out[Len(out)][schema.identField] = IdentText(LastRow)

\* a row with no identity text and text in other fields has been skipped
SkipRulesWitness ==
    /\ RowDone /\ IdentText(LastRow) = "" /\ ~AllFieldsEmpty(LastRow)
    /\ last = "skip_header"

\* C1 as claimed: a header echo is excluded, an all-empty row is excluded,
\* and every other row with a non-empty field is retained, even with no
\* identity text
SkipRulesAsClaimed ==
    RowDone =>
        /\ IsEcho(LastRow) => last # "emit"
        /\ AllFieldsEmpty(LastRow) => last # "emit"
        /\ (~IsEcho(LastRow) /\ ~AllFieldsEmpty(LastRow)) => last = "emit"

\* the trimmed cell of a row under a title, "" when the header map lacks
\* the title or the row is too short
CellUnder(row, title) ==
    IF title \in DOMAIN cols /\ cols[title] < Len(row)
    THEN normalize_text(row[cols[title] + 1])
    ELSE ""

FallbackFields ==
    {j \in 1..Len(schema.fields) : Len(schema.fields[j].titles) > 1}

KeptRows == {i \in (hdr + 2)..idx : Emits(rows[i])}

\* C9: at every point of an extractor's loop the k-th emitted record has
\* the identifier <prefix>_k: identifiers start at 1, are pairwise distinct
\* and have no gap whatever rows were skipped, and the records follow the
\* order of the retained rows.
IdsSequential ==
    /\ \A k \in 1..Len(out) : out[k]["id"] = schema.prefix \o "_" \o IntToStr(k)
    /\ \A j, k \in 1..Len(out) : j # k => out[j]["id"] # out[k]["id"]
    /\ pc \in {"loop", "returned"} =>
           /\ Len(out) = Cardinality(KeptRows)
           /\ \A i \in KeptRows :
                  out[Cardinality({i2 \in KeptRows : i2 <= i})][schema.identField]
                      = IdentText(rows[i])

\* three rows gone through, one of them skipped before the second record
IdsSequentialWitness ==
    /\ pc = "loop" /\ idx = hdr + 4 /\ Len(out) = 2 /\ last = "emit"
    /\ ~Emits(rows[hdr + 3])
    /\ out[2]["id"] = schema.prefix \o "_2"

-----------------------------------------------------------------------------
(* dedupe_otr applied to otr_main + otr_ajggh                              *)

MaxRecs == 3

\* an OTR record as parse_otr builds it
OtrRec(id, name, phone, passed, rtg, notes) ==
    [k \in {"id"} \cup FieldNames(OtrSchema("otr")) |->
        CASE k = "id" -> id
          [] k = "name" -> name
          [] k = "phone" -> phone
          [] k = "passed" -> passed
          [] k = "rtgDate" -> rtg
          [] k = "notes" -> notes
          [] OTHER -> ""]

\* <<name, phone, passed, rtgDate, notes>> of the rows of the two sheets
OtrPeople ==
    { <<"Ann", "555", "2023-03-15", "2023-04-01", "x">>,
      <<"Ann", "555", "2023-03-15", "2023-04-01", "y">>,
      <<"ANN", "555", "2023-03-15", "2023-04-01", "x">>,
      <<"Ann", "556", "2023-03-15", "2023-04-01", "x">>,
      <<"Ann", "555", "", "2023-04-01", "x">>,
      <<"Ann", "555", "2023-03-15", "", "x">> }

\* the records parse_otr numbers with a prefix
Numbered(people, prefix) ==
    [i \in 1..Len(people) |->
        OtrRec(prefix \o "_" \o IntToStr(i), people[i][1], people[i][2],
               people[i][3], people[i][4], people[i][5])]

DedupeInputs ==
    { Numbered(SubSeq(q, 1, n), "otrmain") \o Numbered(SubSeq(q, n + 1, Len(q)), "otrajggh") :
        <<q, n>> \in {x \in SeqsUpTo(OtrPeople, MaxRecs) \X (0..MaxRecs) : x[2] <= Len(x[1])} }

DedupeInit == /\ records \in DedupeInputs /\ dOut = <<>> /\ dPc = "call"
              /\ ColIdle /\ IsoIdle /\ HdrIdle /\ ParseIdle /\ MainIdle /\ LoadIdle

DedupeCall == /\ dPc = "call"
              /\ dOut' = dedupe_otr(records)
              /\ dPc' = "done"
              /\ UNCHANGED <<records, colVars, isoVars, hVars, pVars, mVars, lVars>>

SpecDedupe == DedupeInit /\ [][DedupeCall]_vars

\* the identity key of the claim
ClaimKey(r) == <<Lower(r["name"]), r["phone"], r["passed"], r["rtgDate"]>>

\* the positions of the input whose key no earlier record has
FirstOfKey ==
    {i \in 1..Len(records) :
        \A j \in 1..(i - 1) : ClaimKey(records[j]) # ClaimKey(records[i])}

\* C5: the output of dedupe_otr is the input's subsequence of the first
\* record of each key (lower-cased name, phone, passed, rtgDate), each
\* unchanged but for its identifier; no two output records share a key;
\* and the identifiers are otr_1 .. otr_n in output order.
DedupeKeepsFirst ==
    dPc = "done" =>
        /\ Len(dOut) = Cardinality(FirstOfKey)
        /\ \A i \in FirstOfKey :
               LET k == Cardinality({j \in FirstOfKey : j <= i})
               IN  /\ DOMAIN dOut[k] = DOMAIN records[i]
                   /\ \A f \in DOMAIN records[i] \ {"id"} : dOut[k][f] = records[i][f]
        /\ \A j, k \in 1..Len(dOut) : j # k => ClaimKey(dOut[j]) # ClaimKey(dOut[k])
        /\ \A k \in 1..Len(dOut) : dOut[k]["id"] = "otr_" \o IntToStr(k)

\* three records from the two sheets, the middle one a duplicate of the
\* first but for the case of the name and the notes
DedupeWitness ==
    /\ dPc = "done" /\ Len(records) = 3 /\ Len(dOut) = 2
    /\ records[1]["id"] = "otrmain_1" /\ records[3]["id"] = "otrajggh_2"
    /\ records[1]["name"] = "Ann" /\ records[2]["name"] = "ANN"
    /\ dOut[2]["notes"] = records[3]["notes"] /\ dOut[2]["id"] = "otr_2"

-----------------------------------------------------------------------------
(* load_workbook_rows applied to a one-sheet workbook                      *)

MaxCells == 2
MaxFill == 1

Cell(r, t, hasIs, isText, hasV, vText) ==
    [r |-> r, t |-> t, hasIs |-> hasIs, isText |-> isText, hasV |-> hasV, vText |-> vText]

CellSet ==
    { Cell("A1", "inlineStr", TRUE, "a", FALSE, ""),
      Cell("B1", "", FALSE, "", TRUE, " 7 "),
      Cell("C1", "s", FALSE, "", TRUE, "1"),
      Cell("C1", "", FALSE, "", FALSE, ""),
      Cell("AA1", "s", FALSE, "", TRUE, "-1"),
      Cell("b1", "", FALSE, "", TRUE, "low"),
      Cell("", "s", FALSE, "", TRUE, "x") }

\* row elements with no addressed cell, and one with
FillerRows ==
    { <<>>, <<Cell("", "", FALSE, "", TRUE, "zz")>>,
      <<Cell("B2", "s", FALSE, "", TRUE, "0")>> }

LoadDocs ==
    { pre \o <<r>> \o post :
        r \in SeqsUpTo(CellSet, MaxCells),
        <<pre, post>> \in {x \in SeqsUpTo(FillerRows, MaxFill) \X SeqsUpTo(FillerRows, MaxFill) :
                              Len(x[1]) + Len(x[2]) <= MaxFill} }

LoadInputs ==
    { [shared |-> st[1],
       sheets |-> << [name |-> "LEADS", target |-> st[2], rows |-> doc] >>] :
        st \in { << <<"s0", "s1">>, "worksheets/sheet1.xml" >>,
                 << <<>>, "worksheets/sheet1.xml" >>,
                 << <<"s0", "s1">>, "chartsheets/sheet1.xml" >> },
        doc \in LoadDocs }

LoadInit == /\ lWb \in LoadInputs /\ lRes = <<>> /\ lPc = "call"
            /\ ColIdle /\ IsoIdle /\ HdrIdle /\ ParseIdle /\ DedupeIdle /\ MainIdle

LoadCall == /\ lPc = "call"
            /\ lRes' = load_workbook_rows(lWb)
            /\ lPc' = "done"
            /\ UNCHANGED <<lWb, colVars, isoVars, hVars, pVars, dVars, mVars>>

SpecLoad == LoadInit /\ [][LoadCall]_vars

\* the cell element carries an address: upper-case letters, then a digit
IsAddressed(c) ==
    \E k \in 1..(Len(c.r) - 1) :
        /\ \A j \in 1..k : IsUpper(Char(c.r, j))
        /\ IsDigit(Char(c.r, k + 1))

\* the column number of an addressed cell element
ColumnOf(c) ==
    col_to_num(SubSeq(c.r, 1, CHOOSE k \in 1..(Len(c.r) - 1) :
                                  /\ \A j \in 1..k : IsUpper(Char(c.r, j))
                                  /\ ~IsUpper(Char(c.r, k + 1))))

LoadDoc == lWb.sheets[1].rows

Populated(i) == {j \in 1..Len(LoadDoc[i]) : IsAddressed(LoadDoc[i][j])}

PopulatedRows == {i \in 1..Len(LoadDoc) : Populated(i) # {}}

\* C10: every row of a sheet's grid is as long as the highest populated
\* column number of its document row, holds each cell's text at index
\* (column number - 1), the last cell of a column winning, and "" in every
\* column without a cell; a document row with no populated cell is left
\* out, so the grid has no empty row; the grid keeps the document order.
GridRowsDense ==
    (lPc = "done" /\ "LEADS" \in DOMAIN lRes) =>
        LET g == lRes["LEADS"]
        IN  /\ Len(g) = Cardinality(PopulatedRows)
            /\ \A k \in 1..Len(g) : Len(g[k]) >= 1
            /\ \A i \in PopulatedRows :
                   LET row == g[Cardinality({i2 \in PopulatedRows : i2 <= i})]
                       colsOf == {ColumnOf(LoadDoc[i][j]) : j \in Populated(i)}
                   IN  /\ Len(row) = SetMax(colsOf)
                       /\ \A c \in 1..Len(row) :
                              LET at == {j \in Populated(i) : ColumnOf(LoadDoc[i][j]) = c}
                              IN  row[c] = IF at = {} THEN ""
                                           ELSE CellValue(LoadDoc[i][SetMax(at)], lWb.shared)

\* a row element without populated cells left out before a row of three
\* columns whose second column has no cell
GridRowsWitness ==
    /\ lPc = "done" /\ "LEADS" \in DOMAIN lRes
    /\ Len(LoadDoc) = 2 /\ Populated(1) = {} /\ Len(lRes["LEADS"]) = 1
    /\ lRes["LEADS"][1] = <<"a", "", "s1">>

-----------------------------------------------------------------------------
(* main run on workbooks in which up to MaxFaulty sheets are not as        *)
(* expected                                                                *)

MaxFaulty == 2

SheetNames ==
    <<SHEET_DRIVERS, SHEET_LEADS, SHEET_OTR, SHEET_AJGGH, SHEET_AG4, SHEET_AG4SEP,
      SHEET_HISTORICAL>>

\* the extractor main applies to each sheet, and the local it assigns
SheetSchema ==
    <<DriversSchema, LeadsSchema, OtrSchema("otrmain"), OtrSchema("otrajggh"),
      Ag4HiresSchema, Ag4SepSchema, HistoricalSchema>>

SheetLocal ==
    <<"drivers", "leads", "otr_main", "otr_ajggh", "ag4_hires", "ag4_sep", "historical">>

\* a grid of sheet n: "data" has a title row, the header and rows; "empty"
\* the header alone; "nohdr" rows under no header
SheetGrid(n, kind) ==
    LET sch == SheetSchema[n]
        hd == SampleHeader(sch)
        w == Len(hd)
        full == [j \in 1..w |-> IF j = 1 THEN "Ann" ELSE IF j = 2 THEN "45000" ELSE "x"]
        other == [j \in 1..w |-> IF j = 1 THEN (IF n = 4 THEN "Cy" ELSE "Bob") ELSE ""]
        echo == [j \in 1..w |-> Lower(hd[j])]
    IN  CASE kind = "data" -> << <<"Master Driver Sep">>, hd, full, echo, other >>
          [] kind = "empty" -> << hd >>
          [] OTHER -> << <<"Master Driver Sep">>, <<"Ann", "45000">> >>

\* the worksheet XML of a grid: inline-string cells addressed A1, B1, ...
DocOf(g) ==
    [i \in 1..Len(g) |->
        [j \in 1..Len(g[i]) |->
            Cell(NumToCol(j) \o IntToStr(i), "inlineStr", TRUE, g[i][j], FALSE, "")]]

\* the workbook in which sheet n is of kind kinds[n]: "absent" has no
\* entry, "chart" an entry whose target is no worksheet
WorkbookOf(kinds) ==
    LET entry(n) ==
            [name |-> SheetNames[n],
             target |-> IF kinds[n] = "chart" THEN "chartsheets/sheet1.xml"
                        ELSE "worksheets/sheet" \o IntToStr(n) \o ".xml",
             rows |-> DocOf(SheetGrid(n, kinds[n]))]
        present == SelectSeq([n \in 1..7 |-> n], LAMBDA n : kinds[n] # "absent")
    IN  [shared |-> <<>>, sheets |-> [k \in 1..Len(present) |-> entry(present[k])]]

SheetKinds ==
    { kinds \in [1..7 -> {"data", "empty", "nohdr", "chart", "absent"}] :
        Cardinality({n \in 1..7 : kinds[n] # "data"}) <= MaxFaulty }

MainInit == /\ workbook \in {WorkbookOf(kinds) : kinds \in SheetKinds}
            /\ sheets = <<>> /\ locals = <<>> /\ written = <<>>
            /\ mErr = "" /\ mPc = "load"
            /\ ColIdle /\ IsoIdle /\ HdrIdle /\ ParseIdle /\ DedupeIdle /\ LoadIdle

SpecMain == MainInit /\ [][MainNext]_vars

\* sheet n is in the workbook as a worksheet
SheetFound(n) ==
    \E k \in 1..Len(workbook.sheets) :
        /\ workbook.sheets[k].name = SheetNames[n]
        /\ StartsWith(workbook.sheets[k].target, "worksheets/")

\* a row of the loaded sheet n holds every header keyword of its extractor
HeaderFound(n) ==
    /\ SheetNames[n] \in DOMAIN sheets
    /\ \E i \in 1..Len(sheets[SheetNames[n]]) :
           \A k \in 1..Len(SheetSchema[n].keys) :
               Contains(Joined(sheets[SheetNames[n]][i]), SheetSchema[n].keys[k])

SheetOk(n) == SheetFound(n) /\ HeaderFound(n)

\* C7: main has no partial success: the output document is written only
\* when all seven sheets were found and every extractor found its header,
\* and then holds all six categories as extracted; when a sheet is absent
\* or a header row is not found the run aborts there, nothing is ever
\* written, and no local holds a category of a failed sheet.
NoPartialSuccess ==
    /\ Len(written) <= 1
    /\ Len(written) = 1 =>
           /\ mPc = "done"
           /\ \A n \in 1..7 : SheetOk(n)
           /\ written[1].driversSep = parse_drivers(sheets[SHEET_DRIVERS]).out
           /\ written[1].leads = parse_leads(sheets[SHEET_LEADS]).out
           /\ written[1].otrHires =
                  dedupe_otr(parse_otr(sheets[SHEET_OTR], "otrmain").out
                             \o parse_otr(sheets[SHEET_AJGGH], "otrajggh").out)
           /\ written[1].ag4Hires = parse_ag4_hires(sheets[SHEET_AG4]).out
           /\ written[1].ag4Sep = parse_ag4_sep(sheets[SHEET_AG4SEP]).out
           /\ written[1].historical = parse_historical(sheets[SHEET_HISTORICAL]).out
    /\ (mPc # "load" /\ \E n \in 1..7 : ~SheetOk(n)) => Len(written) = 0
    /\ mPc = "aborted" =>
           /\ Len(written) = 0
           /\ mErr \in {"KeyError", "HeaderNotFound"}
           /\ \E n \in 1..7 :
                  /\ ~SheetOk(n)
                  /\ \A m \in 1..(n - 1) : SheetOk(m)
                  /\ mErr = (IF SheetFound(n) THEN "HeaderNotFound" ELSE "KeyError")
                  /\ \A m \in n..7 : SheetLocal[m] \notin DOMAIN locals
    /\ \A n \in 1..7 : SheetLocal[n] \in DOMAIN locals => SheetOk(n)
    /\ mPc = "done" => Len(written) = 1

\* a run aborted on a header that is not found, after other categories
\* were extracted, with nothing written
NoPartialWitness ==
    /\ mPc = "aborted" /\ mErr = "HeaderNotFound"
    /\ "drivers" \in DOMAIN locals /\ "otr_main" \in DOMAIN locals
    /\ Len(written) = 0

-----------------------------------------------------------------------------
(* The program as a whole: any one of the runs above                       *)

Init == \/ ColInit \/ IsoInit \/ HdrInit \/ ParseInit
        \/ DedupeInit \/ LoadInit \/ MainInit

Next == \/ ColCall \/ IsoCall \/ HdrCall \/ ParseNext
        \/ DedupeCall \/ LoadCall \/ MainNext

Spec == Init /\ [][Next]_vars

=============================================================================
